---- MODULE Spec2Model ----
(***************************************************************************)
(* Incremental synchronisation of game results (cfb.py) and daily weather  *)
(* observations (weather.py) into one SQLite store.                        *)
(*                                                                         *)
(* The store is seen through one sqlite3 connection: `db` is what the      *)
(* connection reads (committed rows plus its own uncommitted writes),      *)
(* `disk` is the committed database file, `inTx` is conn.in_transaction.   *)
(* Days and opponent names are small integers; None / SQL NULL is 0.       *)
(***************************************************************************)
EXTENDS Integers, Sequences, FiniteSets, TLC

\* ---------------------------------------------------------------- bounds
MaxLen == 2           \* the short candidate lists hold up to MaxLen distinct items
Extra == 2            \* the long candidate list has BATCH_SIZE + Extra items
NumOpp == 2           \* opponent names 1..NumOpp
MaxOps == 3           \* data operations per behaviour
FailItem == 2         \* the batch item at which a remote fetch may fail
MaxDateLen == 3       \* raw startDate strings hold up to MaxDateLen characters
MaxSpan == 16         \* generate_dates ranges end up to MaxSpan days from their start
MaxGames == 2         \* the analysis functions get lists of up to MaxGames games

\* ------------------------------------------------------ program constants
BATCH_SIZE == 25
batch_size == 25
None == 0

\* ---------------------------------------------------------------- helpers
Min(a, b) == IF a < b THEN a ELSE b

Range(a, b) == [i \in 1..(b - a + 1) |-> a + i - 1]

Elems(s) == {s[i] : i \in 1..Len(s)}

\* python slice s[:n]
Slice(s, n) == SubSeq(s, 1, Min(n, Len(s)))

\* ------------------------------------------------------------ the database
EmptyDB ==
    [tables    |-> {},
     dates     |-> <<>>, datesSeq   |-> 0,
     opponents |-> <<>>, oppSeq     |-> 0,
     cfb_games |-> <<>>, gamesSeq   |-> 0,
     Weather   |-> <<>>, weatherSeq |-> 0]

\* DROP TABLE IF EXISTS <t> ; CREATE TABLE <t>
CreateTable_DropFirst(d, t) == [d EXCEPT !.tables = @ \cup {t}, ![t] = <<>>]

\* CREATE TABLE IF NOT EXISTS <t>
CreateTable(d, t) == [d EXCEPT !.tables = @ \cup {t}]

\* SELECT id FROM dates WHERE day = ? ; fetchone() is None when no row
LookupDate(d, day) ==
    IF \E i \in 1..Len(d.dates) : d.dates[i].day = day
    THEN d.dates[CHOOSE i \in 1..Len(d.dates) : d.dates[i].day = day].id
    ELSE None

\* SELECT id FROM opponents WHERE name = ?
LookupOpponent(d, name) ==
    IF \E i \in 1..Len(d.opponents) : d.opponents[i].name = name
    THEN d.opponents[CHOOSE i \in 1..Len(d.opponents) : d.opponents[i].name = name].id
    ELSE None

\* dates.day is UNIQUE: an insert of a day already present conflicts
DatesConflict(d, day) == \E i \in 1..Len(d.dates) : d.dates[i].day = day

\* Weather has no constraint but its AUTOINCREMENT primary key
WeatherConflict(d, wid) == \E i \in 1..Len(d.Weather) : d.Weather[i].weather_id = wid

\* the insert a dates table without UNIQUE(day) would perform
InsertOrIgnoreDate_NoUnique(d, day) ==
    [d EXCEPT !.datesSeq = @ + 1,
              !.dates = Append(@, [id |-> d.datesSeq + 1, day |-> day])]

\* INSERT OR IGNORE INTO dates (day) VALUES (?): an ignored insert still
\* advances the AUTOINCREMENT sequence
InsertOrIgnoreDate(d, day) ==
    IF DatesConflict(d, day)
    THEN [d EXCEPT !.datesSeq = @ + 1]
    ELSE [d EXCEPT !.datesSeq = @ + 1,
                   !.dates = Append(@, [id |-> d.datesSeq + 1, day |-> day])]

\* INSERT INTO dates (day) VALUES (?) ; cur.lastrowid.  Executed only after
\* the lookup of that day missed, so UNIQUE(day) cannot reject it.
InsertDate(d, day) ==
    [d EXCEPT !.datesSeq = @ + 1,
              !.dates = Append(@, [id |-> d.datesSeq + 1, day |-> day])]

\* INSERT INTO opponents (name) VALUES (?) ; cur.lastrowid.  Executed only
\* after the lookup of that name missed.
InsertOpponent(d, name) ==
    [d EXCEPT !.oppSeq = @ + 1,
              !.opponents = Append(@, [id |-> d.oppSeq + 1, name |-> name])]

\* the insert a Weather table with UNIQUE(date_id) would perform
InsertOrIgnoreWeather_UniqueDate(d, date_id, cleaned) ==
    IF \E i \in 1..Len(d.Weather) : d.Weather[i].date_id = date_id
    THEN [d EXCEPT !.weatherSeq = @ + 1]
    ELSE [d EXCEPT !.weatherSeq = @ + 1,
                   !.Weather = Append(@, [weather_id    |-> d.weatherSeq + 1,
                                          date_id       |-> date_id,
                                          temp_mean     |-> cleaned.temp_mean,
                                          wind_speed    |-> cleaned.wind_speed,
                                          cloud_cover   |-> cleaned.cloud_cover,
                                          precipitation |-> cleaned.precipitation])]

\* INSERT OR IGNORE INTO weather (date_id, ...) VALUES (...)
InsertOrIgnoreWeather(d, date_id, cleaned) ==
    IF WeatherConflict(d, d.weatherSeq + 1)
    THEN [d EXCEPT !.weatherSeq = @ + 1]
    ELSE [d EXCEPT !.weatherSeq = @ + 1,
                   !.Weather = Append(@, [weather_id    |-> d.weatherSeq + 1,
                                          date_id       |-> date_id,
                                          temp_mean     |-> cleaned.temp_mean,
                                          wind_speed    |-> cleaned.wind_speed,
                                          cloud_cover   |-> cleaned.cloud_cover,
                                          precipitation |-> cleaned.precipitation])]

\* INSERT INTO cfb_games (date_id, opponent_id, points_for, points_against, home)
InsertGame(d, row) ==
    [d EXCEPT !.gamesSeq = @ + 1,
              !.cfb_games = Append(@, [id             |-> d.gamesSeq + 1,
                                       date_id        |-> row.date_id,
                                       opponent_id    |-> row.opponent_id,
                                       points_for     |-> row.points_for,
                                       points_against |-> row.points_against,
                                       home           |-> row.home])]

\* ---------------------------------------------------------------- weather.py
\* the archive API's answer for one day
get_weather_data(day) ==
    [daily |-> [time                |-> <<day>>,
                temperature_2m_mean |-> <<40 + day>>,
                wind_speed_10m_mean |-> <<day % 3>>,
                cloud_cover_mean    |-> <<(7 * day) % 100>>,
                precipitation_sum   |-> <<day % 2>>]]

process_weather_data(conditions) ==
    [date          |-> conditions.daily.time[1],
     temp_mean     |-> conditions.daily.temperature_2m_mean[1],
     wind_speed    |-> conditions.daily.wind_speed_10m_mean[1],
     cloud_cover   |-> conditions.daily.cloud_cover_mean[1],
     precipitation |-> conditions.daily.precipitation_sum[1]]

\* A "%Y-%m-%d" string is <<year, month, day>>; a datetime.date is the
\* number of its day, counted from the first day of the first year of Years.
Years == 2023..2025

FirstYear == CHOOSE y \in Years : \A z \in Years : y <= z

IsLeap(y) == (y % 4 = 0 /\ y % 100 # 0) \/ y % 400 = 0

DaysInYear(y) == IF IsLeap(y) THEN 366 ELSE 365

DaysInMonth(y, m) ==
    IF m = 2 THEN (IF IsLeap(y) THEN 29 ELSE 28)
    ELSE IF m \in {4, 6, 9, 11} THEN 30 ELSE 31

RECURSIVE DaysBeforeYear(_)
DaysBeforeYear(y) ==
    IF y <= FirstYear THEN 0 ELSE DaysBeforeYear(y - 1) + DaysInYear(y - 1)

RECURSIVE DaysBeforeMonth(_, _)
DaysBeforeMonth(y, m) ==
    IF m <= 1 THEN 0 ELSE DaysBeforeMonth(y, m - 1) + DaysInMonth(y, m - 1)

\* datetime.strptime(s, "%Y-%m-%d").date()
strptime(s) == DaysBeforeYear(s[1]) + DaysBeforeMonth(s[1], s[2]) + s[3]

RECURSIVE YearOf(_, _)
YearOf(n, y) ==
    IF n > DaysBeforeYear(y) + DaysInYear(y) THEN YearOf(n, y + 1) ELSE y

RECURSIVE MonthOf(_, _, _)
MonthOf(n, y, m) ==
    IF n > DaysBeforeMonth(y, m) + DaysInMonth(y, m) THEN MonthOf(n, y, m + 1) ELSE m

\* current.strftime("%Y-%m-%d")
strftime(current) ==
    LET y == YearOf(current, FirstYear)
        n == current - DaysBeforeYear(y)
        m == MonthOf(n, y, 1)
    IN  <<y, m, n - DaysBeforeMonth(y, m)>>

\* the loop with `while current < end_date`
RECURSIVE GenerateLoop_Exclusive(_, _, _)
GenerateLoop_Exclusive(current, end_date, all_dates) ==
    IF current < end_date
    THEN GenerateLoop_Exclusive(current + 7, end_date, Append(all_dates, strftime(current)))
    ELSE all_dates

\* while current <= end_date: append current; current += timedelta(days=7)
RECURSIVE GenerateLoop(_, _, _)
GenerateLoop(current, end_date, all_dates) ==
    IF current <= end_date
    THEN GenerateLoop(current + 7, end_date, Append(all_dates, strftime(current)))
    ELSE all_dates

generate_dates(start, end) == GenerateLoop(strptime(start), strptime(end), <<>>)

\* the keys of conditions['daily'] that process_weather_data reads
DailyKeys ==
    {"time", "temperature_2m_mean", "wind_speed_10m_mean", "cloud_cover_mean",
     "precipitation_sum"}

\* conditions['daily'][key][0] raises KeyError when 'daily' or the key is
\* missing and IndexError when the list is empty
process_weather_data_raises(conditions) ==
    \/ "daily" \notin DOMAIN conditions
    \/ \E key \in DailyKeys :
          \/ key \notin DOMAIN conditions.daily
          \/ conditions.daily[key] = <<>>

weather_get_date_id(d, date) == LookupDate(d, date)

\* SELECT dates.day FROM dates JOIN Weather ON Weather.date_id = dates.id
\*   WHERE Weather.date_id IS NOT NULL
grab_dates(d) ==
    {d.dates[i].day : i \in {k \in 1..Len(d.dates) :
        \E j \in 1..Len(d.Weather) :
            /\ d.Weather[j].date_id # None
            /\ d.Weather[j].date_id = d.dates[k].id}}

\* the loop of insert_dates over days[i..]
RECURSIVE InsertDatesLoop(_, _, _)
InsertDatesLoop(d, days, i) ==
    IF i > Len(days) THEN d
    ELSE InsertDatesLoop(InsertOrIgnoreDate(d, days[i]), days, i + 1)

\* remaining = [d for d in days if d not in current_dates]
WeatherRemaining(d, days) ==
    LET current_dates == grab_dates(d)
    IN  SelectSeq(days, LAMBDA x : x \notin current_dates)

\* the batch without its truncation
WeatherBatch_NoLimit(remaining) == remaining

\* batch = remaining[:BATCH_SIZE]
WeatherBatch(remaining) == Slice(remaining, BATCH_SIZE)

\* the loop of add_data over batch[i..]; failAt is the item whose fetch raises
\* (0: none).  Result: the connection's view, the days fetched, raised or
\* not, and the statements executed in order.
RECURSIVE AddDataLoop(_, _, _, _, _, _)
AddDataLoop(d, batch, i, failAt, fetched, log) ==
    IF i > Len(batch)
    THEN [db |-> d, fetched |-> fetched, raised |-> FALSE, log |-> log]
    ELSE IF i = failAt
    THEN [db |-> d, fetched |-> fetched, raised |-> TRUE, log |-> Append(log, "fetch")]
    ELSE LET day     == batch[i]
             cleaned == process_weather_data(get_weather_data(day))
             date_id == weather_get_date_id(d, day)
         IN  AddDataLoop(InsertOrIgnoreWeather(d, date_id, cleaned),
                         batch, i + 1, failAt, Append(fetched, day),
                         log \o <<"fetch", "normalize", "resolve", "insert">>)

\* -------------------------------------------------------------------- cfb.py
\* A JSON value: `null` tells a JSON null (Python None) from a value v.
Val(x) == [null |-> FALSE, v |-> x]
NoneOf(z) == [null |-> TRUE, v |-> z]

\* g.get(key, default): the stored value, None included, when the key is there
Get(g, key, default) == IF key \in DOMAIN g THEN g[key] ELSE default

\* the string "unknown"; date strings are sequences of characters
unknown == <<"u", "n", "k", "n", "o", "w", "n">>

\* c in s
Contains(s, c) == \E i \in 1..Len(s) : s[i] = c

\* s.split(c)[0]
SplitHead(s, c) ==
    IF Contains(s, c)
    THEN SubSeq(s, 1, (CHOOSE i \in 1..Len(s) :
                          s[i] = c /\ \A j \in 1..(i - 1) : s[j] # c) - 1)
    ELSE s

\* the date kept as it came
date_clean_NoSplit(date_raw) == date_raw

\* date_clean = date_raw.split("T")[0] if "T" in date_raw else date_raw
date_clean(date_raw) ==
    IF Contains(date_raw, "T") THEN SplitHead(date_raw, "T") ELSE date_raw

\* "T" in date_raw raises TypeError when startDate is there and is None
GameRaises(g) == Get(g, "startDate", Val(unknown)).null

\* one iteration of the loop of process_cfb_data
ProcessGame(g, TEAM) ==
    LET date_raw  == Get(g, "startDate", Val(unknown))
        home_team == Get(g, "homeTeam", Val("unknown"))
        away_team == Get(g, "awayTeam", Val("unknown"))
    IN  IF home_team = Val(TEAM)
        THEN [date           |-> date_clean(date_raw.v),
              opponent       |-> away_team,
              points_for     |-> Get(g, "homePoints", Val(0)),
              points_against |-> Get(g, "awayPoints", Val(0)),
              home           |-> 1]
        ELSE [date           |-> date_clean(date_raw.v),
              opponent       |-> home_team,
              points_for     |-> Get(g, "awayPoints", Val(0)),
              points_against |-> Get(g, "homePoints", Val(0)),
              home           |-> 0]

process_cfb_data(raw_data, TEAM) ==
    IF \E i \in 1..Len(raw_data) : GameRaises(raw_data[i])
    THEN [raised |-> TRUE, out |-> <<>>]
    ELSE [raised |-> FALSE,
          out    |-> [i \in 1..Len(raw_data) |-> ProcessGame(raw_data[i], TEAM)]]

Game(date, opponent, points_for, points_against, home) ==
    [date |-> date, opponent |-> opponent, points_for |-> points_for,
     points_against |-> points_against, home |-> home]

\* the natural key compared by the novelty filter of store_cfb_data
GameKey(g) == <<g.date, g.opponent, g.points_for, g.points_against, g.home>>

\* get_opponent_id without its lookup
get_opponent_id_NoLookup(d, opponent_name) ==
    [db |-> InsertOpponent(d, opponent_name), id |-> d.oppSeq + 1]

\* get_opponent_id: look the name up, insert it when it is absent
get_opponent_id(d, opponent_name) ==
    LET row == LookupOpponent(d, opponent_name)
    IN  IF row # None
        THEN [db |-> d, id |-> row]
        ELSE [db |-> InsertOpponent(d, opponent_name), id |-> d.oppSeq + 1]

cfb_get_date_id(d, date_str) == LookupDate(d, date_str)

\* rows_db = cur.fetchall() right after the CREATE TABLE statement: the
\* cursor holds the result of a statement that returns no rows
rows_db == <<>>

games_db == {<<row[1], row[2], row[3], row[4], row[5]>> : row \in Elems(rows_db)}

\* remaining = the games whose 5-tuple is not in games_db
GamesRemaining(games) == SelectSeq(games, LAMBDA g : GameKey(g) \notin games_db)

\* batch = remaining[:batch_size]
GamesBatch(remaining) == Slice(remaining, batch_size)

\* the loop of store_cfb_data over batch[i..]: the SELECT of get_date_id
\* raises OperationalError when the dates table does not exist
RECURSIVE StoreLoop(_, _, _, _, _)
StoreLoop(d, batch, i, inserts, log) ==
    IF i > Len(batch)
    THEN [db |-> d, inserts |-> inserts, raised |-> FALSE, log |-> log]
    ELSE LET g   == batch[i]
             opp == get_opponent_id(d, g.opponent)
         IN  IF "dates" \notin d.tables
             THEN [db |-> opp.db, inserts |-> inserts, raised |-> TRUE,
                   log |-> log \o <<"resolve", "resolve">>]
             ELSE LET found   == cfb_get_date_id(opp.db, g.date)
                      d2      == IF found = None THEN InsertDate(opp.db, g.date) ELSE opp.db
                      date_id == IF found = None THEN opp.db.datesSeq + 1 ELSE found
                  IN  StoreLoop(d2, batch, i + 1,
                                Append(inserts, [date_id        |-> date_id,
                                                 opponent_id    |-> opp.id,
                                                 points_for     |-> g.points_for,
                                                 points_against |-> g.points_against,
                                                 home           |-> g.home]),
                                log \o <<"resolve", "resolve">>)

\* cur.executemany(INSERT INTO cfb_games ..., inserts)
RECURSIVE ExecuteMany(_, _, _)
ExecuteMany(d, inserts, i) ==
    IF i > Len(inserts) THEN d
    ELSE ExecuteMany(InsertGame(d, inserts[i]), inserts, i + 1)

\* ------------------------------------------------------------------- inputs
\* candidate day lists: the first n days, the first n days followed by day 1
\* again, and a backlog longer than one batch
LongDays == Range(1, BATCH_SIZE + Extra)

DayLists ==
    {Range(1, n) : n \in 0..MaxLen}
        \cup {Append(Range(1, n), 1) : n \in 1..MaxLen}
        \cup {LongDays}

\* the i-th game of a season: two games a day, opponents in rotation
NthGame(i) == Game((i + 1) \div 2, (i % NumOpp) + 1, i % 3, i % 2, i % 2)

\* the first game again with another score
Rescored == [NthGame(1) EXCEPT !.points_for = @ + 1]

FirstGames(n) == [i \in 1..n |-> NthGame(i)]

LongGames == FirstGames(BATCH_SIZE + Extra)

\* candidate game lists: the first n games, the first n games followed by
\* the rescored first game, and a backlog longer than one batch
GameLists ==
    {FirstGames(n) : n \in 0..MaxLen}
        \cup {Append(FirstGames(n), Rescored) : n \in 1..MaxLen}
        \cup {LongGames}

\* the part of f over the keys F
Restrict(f, F) == [key \in F |-> f[key]]

\* raw games: every key missing, null or set
Teams == {"Michigan", "Indiana"}

RawKeys == {"startDate", "homeTeam", "awayTeam", "homePoints", "awayPoints"}

DateStrings == UNION {[1..n -> {"1", "T"}] : n \in 0..MaxDateLen}

FullRawGames ==
    [startDate  : {Val(x) : x \in DateStrings} \cup {NoneOf(<<>>)},
     homeTeam   : {Val(t) : t \in Teams} \cup {NoneOf("")},
     awayTeam   : {Val(t) : t \in Teams} \cup {NoneOf("")},
     homePoints : {Val(7), NoneOf(0)},
     awayPoints : {Val(3), NoneOf(0)}]

RawGames == {Restrict(f, F) : f \in FullRawGames, F \in SUBSET RawKeys}

\* games with every field set, for lists of two
SampleGames ==
    {f \in FullRawGames :
        /\ \A key \in RawKeys : ~f[key].null
        /\ f.startDate.v \in {<<"1">>, <<"1", "T", "1">>}
        /\ f.homeTeam # f.awayTeam}

RawGameLists ==
    {<<>>} \cup {<<g>> : g \in RawGames}
           \cup {<<g, h>> : g \in SampleGames, h \in SampleGames}

\* raw weather responses: every daily key missing, empty, null or set, and
\* the answer without 'daily' that the API gives to a bad request
RawConditions ==
    {[daily |-> Restrict(f, F)] :
        f \in [DailyKeys -> {<<>>, <<NoneOf(0)>>, <<Val(1)>>}],
        F \in SUBSET DailyKeys}
    \cup {[error |-> Val(TRUE)]}

\* ---------------------------------------------------------------- Analysis.py
\* A Python number is the fraction <<numerator, denominator>> in lowest terms.
RECURSIVE GCD(_, _)
GCD(a, b) == IF b = 0 THEN a ELSE GCD(b, a % b)

Frac(n, d) == LET g == GCD(n, d) IN <<n \div g, d \div g>>

Zero == <<0, 1>>

\* sum(points)
RECURSIVE Sum(_)
Sum(points) == IF points = <<>> THEN 0 ELSE Head(points) + Sum(Tail(points))

\* a / b: ZeroDivisionError when b is 0
TrueDiv(a, b) ==
    IF b = 0 THEN [raised |-> TRUE, v |-> Zero] ELSE [raised |-> FALSE, v |-> Frac(a, b)]

\* round(x, 2) of a number that is not negative
Round2(x) == Frac((200 * x[1] + x[2]) \div (2 * x[2]), 100)

\* [g[field] for g in kept]
Pick(kept, field) == [i \in 1..Len(kept) |-> kept[i][field]]

\* the average taken for every list
Average_NoGuard(points) == TrueDiv(Sum(points), Len(points))

\* sum(points) / len(points) if points else 0
Average(points) ==
    IF points # <<>> THEN TrueDiv(Sum(points), Len(points))
    ELSE [raised |-> FALSE, v |-> Zero]

\* the call raises when the average of one of its categories does
Averages(categories, rounded) ==
    [raised |-> \E key \in DOMAIN categories : Average(categories[key]).raised,
     out    |-> [key \in DOMAIN categories |->
                    IF rounded THEN Round2(Average(categories[key]).v)
                    ELSE Average(categories[key]).v]]

precipitation_analysis(games) ==
    LET total_points == Sum(Pick(games, "points_for"))
        rain_points  == Sum(Pick(SelectSeq(games, LAMBDA g : g.precipitation > 0),
                                 "points_for"))
    IN  IF total_points # 0
        THEN [raised |-> TrueDiv(rain_points, total_points).raised,
              out    |-> Frac(100 * rain_points, total_points)]
        ELSE [raised |-> FALSE, out |-> Zero]

\* the filter of each category of wind_home_advantage
InWindCategory(key, g) ==
    CASE key = "low_wind_home"  -> g.home = 1 /\ g.wind_speed <= 15
      [] key = "high_wind_home" -> g.home = 1 /\ g.wind_speed > 15
      [] key = "low_wind_away"  -> g.home = 0 /\ g.wind_speed <= 15
      [] key = "high_wind_away" -> g.home = 0 /\ g.wind_speed > 15

WindKeys == {"low_wind_home", "high_wind_home", "low_wind_away", "high_wind_away"}

wind_home_advantage(games) ==
    Averages([key \in WindKeys |->
                 Pick(SelectSeq(games, LAMBDA g : InWindCategory(key, g)), "points_for")],
             FALSE)

\* the home games colder / warmer than 45 degrees
ColdHome(games) == SelectSeq(games, LAMBDA g : g.home = 1 /\ g.temp_mean < 45)

WarmHome(games) == SelectSeq(games, LAMBDA g : g.home = 1 /\ g.temp_mean > 45)

pts_by_temp(games) ==
    Averages([Below45 |-> Pick(ColdHome(games), "points_for"),
              Above45 |-> Pick(WarmHome(games), "points_for")], TRUE)

\* the home games with less / more than 50 percent of cloud cover
ClearHome(games) == SelectSeq(games, LAMBDA g : g.home = 1 /\ g.cloud_cover < 50)

CloudyHome(games) == SelectSeq(games, LAMBDA g : g.home = 1 /\ g.cloud_cover > 50)

pts_by_cloud(games) ==
    Averages([Below50        |-> Pick(ClearHome(games), "points_for"),
              Above50        |-> Pick(CloudyHome(games), "points_for"),
              Above50Against |-> Pick(CloudyHome(games), "points_against"),
              Below50Against |-> Pick(ClearHome(games), "points_against")], TRUE)

\* joined game records: the weather of a game day is one of three kinds, on
\* either side of and on the thresholds the analysis compares with
WeatherKinds ==
    {[temp_mean |-> 44, cloud_cover |-> 49, wind_speed |-> 15, precipitation |-> 0],
     [temp_mean |-> 45, cloud_cover |-> 50, wind_speed |-> 16, precipitation |-> 0],
     [temp_mean |-> 46, cloud_cover |-> 51, wind_speed |-> 16, precipitation |-> 1]}

JoinedGames ==
    {[points_for |-> pf, points_against |-> 3, home |-> h,
      temp_mean |-> w.temp_mean, cloud_cover |-> w.cloud_cover,
      wind_speed |-> w.wind_speed, precipitation |-> w.precipitation] :
        pf \in {0, 7}, h \in {0, 1}, w \in WeatherKinds}

JoinedLists == UNION {[1..n -> JoinedGames] : n \in 0..MaxGames}

AnalysisFns == {"precipitation_analysis", "wind_home_advantage", "pts_by_temp", "pts_by_cloud"}

\* date ranges: a few starts, every end within MaxSpan days of the start
Calendar ==
    {c \in Years \X (1..12) \X (1..31) : c[3] <= DaysInMonth(c[1], c[2])}

StartDates == {<<2023, 12, 25>>, <<2024, 2, 20>>, <<2025, 2, 20>>, <<2025, 9, 1>>}

DateRanges ==
    {r \in StartDates \X Calendar :
        /\ strptime(r[2]) - strptime(r[1]) <= MaxSpan
        /\ strptime(r[1]) - strptime(r[2]) <= MaxSpan}

\* -------------------------------------------------------------------- state
VARIABLES db, disk, inTx, ops, last, pure

vars == <<db, disk, inTx, ops, last, pure>>

\* the store and its history
store == <<db, disk, inTx, ops, last>>

\* `pure` is a call of a function that does not touch the store: its name,
\* its arguments, and once it is done whether it raised and what it returned
NoPure == [fn |-> "none", arg |-> <<>>, done |-> FALSE, raised |-> FALSE, out |-> <<>>]

\* `last` records the latest call that reads or writes rows (insert_dates,
\* add_data, store_cfb_data, close): its arguments, whether it raised, the
\* remaining list it computed, what it returned, the days it fetched, the
\* fact rows it added and, in `log`, the order of its steps: "fetch" a call
\* of get_weather_data, "normalize" one of process_weather_data, "resolve"
\* a lookup of a dimension id, "insert" a statement that inserts fact
\* rows, "commit" a conn.commit().  `ops` counts these calls.

NoCall ==
    [op |-> "none", raised |-> FALSE, days |-> <<>>, games |-> <<>>,
     remDays |-> <<>>, remGames |-> <<>>, retDays |-> <<>>, retGames |-> <<>>,
     fetched |-> <<>>, added |-> 0, streak |-> 0, log |-> <<>>]

\* consecutive returning calls of the same operation with the same argument
Streak(op, days, games) ==
    IF last.op = op /\ ~last.raised /\ last.days = days /\ last.games = games
    THEN last.streak + 1 ELSE 1

\* setup_db on a fresh database file
Init ==
    /\ db = EmptyDB
    /\ disk = EmptyDB
    /\ inTx = FALSE
    /\ ops = 0
    /\ last = NoCall
    /\ pure = NoPure

\* a CREATE TABLE outside a transaction is written at once; inside one it
\* belongs to the transaction
DiskAfterDDL(tabs) ==
    IF inTx THEN disk ELSE [disk EXCEPT !.tables = @ \cup tabs]

make_table ==
    LET d == CreateTable(db, "Weather")
    IN  /\ db' = d
        /\ disk' = d
        /\ inTx' = FALSE
        /\ UNCHANGED <<ops, last, pure>>

create_dates_table ==
    LET d == CreateTable(db, "dates")
    IN  /\ db' = d
        /\ disk' = d
        /\ inTx' = FALSE
        /\ UNCHANGED <<ops, last, pure>>

insert_dates(days) ==
    /\ ops < MaxOps
    /\ UNCHANGED pure
    /\ ops' = ops + 1
    /\ IF days # <<>> /\ "dates" \notin db.tables
       THEN /\ last' = [NoCall EXCEPT !.op = "insert_dates", !.days = days, !.raised = TRUE]
            /\ UNCHANGED <<db, disk, inTx>>
       ELSE LET d == InsertDatesLoop(db, days, 1)
            IN  /\ db' = d
                /\ disk' = d
                /\ inTx' = FALSE
                /\ last' = [NoCall EXCEPT !.op = "insert_dates", !.days = days]

add_data(days, failAt) ==
    /\ ops < MaxOps
    /\ UNCHANGED pure
    /\ ops' = ops + 1
    /\ IF {"dates", "Weather"} \subseteq db.tables
       THEN LET remaining == WeatherRemaining(db, days)
                batch     == WeatherBatch(remaining)
                loop      == AddDataLoop(db, batch, 1, failAt, <<>>, <<>>)
                call      == [NoCall EXCEPT !.op = "add_data", !.days = days,
                                            !.remDays = remaining,
                                            !.fetched = loop.fetched,
                                            !.added = Len(loop.db.Weather) - Len(db.Weather)]
            IN  /\ db' = loop.db
                /\ IF loop.raised
                   THEN /\ inTx' = (inTx \/ loop.fetched # <<>>)
                        /\ last' = [call EXCEPT !.raised = TRUE, !.log = loop.log]
                        /\ UNCHANGED disk
                   ELSE /\ disk' = loop.db
                        /\ inTx' = FALSE
                        /\ last' = [call EXCEPT !.retDays = batch,
                                                !.log = Append(loop.log, "commit"),
                                                !.streak = Streak("add_data", days, <<>>)]
       ELSE /\ last' = [NoCall EXCEPT !.op = "add_data", !.days = days, !.raised = TRUE]
            /\ UNCHANGED <<db, disk, inTx>>

store_cfb_data(games) ==
    /\ ops < MaxOps
    /\ UNCHANGED pure
    /\ ops' = ops + 1
    /\ LET d0        == CreateTable(CreateTable(db, "opponents"), "cfb_games")
           remaining == GamesRemaining(games)
           batch     == GamesBatch(remaining)
           loop      == StoreLoop(d0, batch, 1, <<>>, <<>>)
           call      == [NoCall EXCEPT !.op = "store_cfb_data", !.games = games,
                                       !.remGames = remaining]
       IN  IF loop.raised
           THEN /\ db' = loop.db
                /\ disk' = DiskAfterDDL({"opponents", "cfb_games"})
                /\ inTx' = (inTx \/ loop.db # d0)
                /\ last' = [call EXCEPT !.raised = TRUE, !.log = loop.log,
                                        !.added = Len(loop.db.cfb_games) - Len(db.cfb_games)]
           ELSE LET d1 == ExecuteMany(loop.db, loop.inserts, 1)
                IN  /\ db' = d1
                    /\ disk' = d1
                    /\ inTx' = FALSE
                    /\ last' = [call EXCEPT !.retGames = batch,
                                            !.log = loop.log \o <<"insert", "commit">>,
                                            !.added = Len(d1.cfb_games) - Len(db.cfb_games),
                                            !.streak = Streak("store_cfb_data", <<>>, games)]

\* conn.close() with a transaction open (or the process ending after an
\* uncaught exception), then setup_db again: uncommitted writes are lost.
\* Without an open transaction closing changes nothing.
close ==
    /\ inTx
    /\ db' = disk
    /\ inTx' = FALSE
    /\ last' = [NoCall EXCEPT !.op = "close"]
    /\ UNCHANGED <<disk, ops, pure>>

Next ==
    \/ make_table
    \/ create_dates_table
    \/ \E days \in DayLists : insert_dates(days)
    \/ \E days \in DayLists, failAt \in {0, FailItem} : add_data(days, failAt)
    \/ \E games \in GameLists : store_cfb_data(games)
    \/ close

Spec == Init /\ [][Next]_vars

\* ------------------------------------------------------- the normalizers
\* process_cfb_data and process_weather_data applied to raw records
NormInit ==
    /\ db = EmptyDB
    /\ disk = EmptyDB
    /\ inTx = FALSE
    /\ ops = 0
    /\ last = NoCall
    /\ \/ \E raw_data \in RawGameLists, TEAM \in Teams :
            pure = [NoPure EXCEPT !.fn = "process_cfb_data",
                                  !.arg = [raw_data |-> raw_data, TEAM |-> TEAM]]
       \/ \E conditions \in RawConditions :
            pure = [NoPure EXCEPT !.fn = "process_weather_data", !.arg = conditions]

call_process_cfb_data ==
    /\ pure.fn = "process_cfb_data"
    /\ ~pure.done
    /\ LET r == process_cfb_data(pure.arg.raw_data, pure.arg.TEAM)
       IN  pure' = [pure EXCEPT !.done = TRUE, !.raised = r.raised, !.out = r.out]
    /\ UNCHANGED store

call_process_weather_data ==
    /\ pure.fn = "process_weather_data"
    /\ ~pure.done
    /\ IF process_weather_data_raises(pure.arg)
       THEN pure' = [pure EXCEPT !.done = TRUE, !.raised = TRUE]
       ELSE pure' = [pure EXCEPT !.done = TRUE, !.out = process_weather_data(pure.arg)]
    /\ UNCHANGED store

NormNext == call_process_cfb_data \/ call_process_weather_data

NormSpec == NormInit /\ [][NormNext]_vars

\* ------------------------------------------------------- generate_dates
DatesInit ==
    /\ db = EmptyDB
    /\ disk = EmptyDB
    /\ inTx = FALSE
    /\ ops = 0
    /\ last = NoCall
    /\ \E r \in DateRanges :
          pure = [NoPure EXCEPT !.fn = "generate_dates",
                                !.arg = [start |-> r[1], end |-> r[2]]]

call_generate_dates ==
    /\ pure.fn = "generate_dates"
    /\ ~pure.done
    /\ pure' = [pure EXCEPT !.done = TRUE,
                            !.out = generate_dates(pure.arg.start, pure.arg.end)]
    /\ UNCHANGED store

DatesNext == call_generate_dates

DatesSpec == DatesInit /\ [][DatesNext]_vars

\* ------------------------------------------------------------- the analysis
AnalysisInit ==
    /\ db = EmptyDB
    /\ disk = EmptyDB
    /\ inTx = FALSE
    /\ ops = 0
    /\ last = NoCall
    /\ \E fn \in AnalysisFns, games \in JoinedLists :
          pure = [NoPure EXCEPT !.fn = fn, !.arg = games]

\* the call `pure` stands for returns r
Returns(fn, r) ==
    /\ pure.fn = fn
    /\ ~pure.done
    /\ pure' = [pure EXCEPT !.done = TRUE, !.raised = r.raised, !.out = r.out]
    /\ UNCHANGED store

call_precipitation_analysis ==
    Returns("precipitation_analysis", precipitation_analysis(pure.arg))

call_wind_home_advantage ==
    Returns("wind_home_advantage", wind_home_advantage(pure.arg))

call_pts_by_temp == Returns("pts_by_temp", pts_by_temp(pure.arg))

call_pts_by_cloud == Returns("pts_by_cloud", pts_by_cloud(pure.arg))

AnalysisNext ==
    \/ call_precipitation_analysis
    \/ call_wind_home_advantage
    \/ call_pts_by_temp
    \/ call_pts_by_cloud

AnalysisSpec == AnalysisInit /\ [][AnalysisNext]_vars

\* ------------------------------------------------------------------- typing
TypeOK ==
    /\ inTx \in BOOLEAN
    /\ ops \in 0..MaxOps
    /\ db.tables \subseteq {"dates", "opponents", "cfb_games", "Weather"}
    /\ disk.tables \subseteq db.tables

\* ------------------------------------------------- vocabulary of the claims
\* the day a dates id stands for (None when no dates row has that id)
DayOfId(d, id) ==
    IF \E i \in 1..Len(d.dates) : d.dates[i].id = id
    THEN d.dates[CHOOSE i \in 1..Len(d.dates) : d.dates[i].id = id].day
    ELSE None

NameOfId(d, id) ==
    IF \E i \in 1..Len(d.opponents) : d.opponents[i].id = id
    THEN d.opponents[CHOOSE i \in 1..Len(d.opponents) : d.opponents[i].id = id].name
    ELSE None

\* natural keys of the game facts the connection sees
StoredGameKeys(d) ==
    {<<DayOfId(d, d.cfb_games[i].date_id), NameOfId(d, d.cfb_games[i].opponent_id),
       d.cfb_games[i].points_for, d.cfb_games[i].points_against, d.cfb_games[i].home>>
        : i \in 1..Len(d.cfb_games)}

\* the Weather rows that belong to a day
WeatherRowsOf(d, day) ==
    {i \in 1..Len(d.Weather) :
        d.Weather[i].date_id # None /\ d.Weather[i].date_id = LookupDate(d, day)}

Distinct(s) == \A i, j \in 1..Len(s) : i # j => s[i] # s[j]

\* ceil(n / BATCH_SIZE)
RunsNeeded(n) == (n + BATCH_SIZE - 1) \div BATCH_SIZE

\* the step is a call of insert_dates, add_data or store_cfb_data
DataStep == ops' = ops + 1

\* the step is a close
CloseStep == ops' = ops /\ last' # last

GamesReturned == last.op = "store_cfb_data" /\ ~last.raised

WeatherReturned == last.op = "add_data" /\ ~last.raised

\* ------------------------------------------------------------------- claims

\* C1: calling store_cfb_data twice in succession with the same list of at
\* most 25 games inserts each game once: the second call returns an empty
\* list and adds no row to cfb_games.
C1_IdempotentGamesRerun ==
    (GamesReturned /\ last.streak >= 2 /\ Len(last.games) <= batch_size)
        => (last.retGames = <<>> /\ last.added = 0)

\* C2: add_data fetches and inserts only for candidate dates that have no
\* weather row yet; so a second add_data call with the same
\* candidate list (every fetch succeeding, the list no longer than
\* BATCH_SIZE) fetches nothing, inserts nothing and returns an empty list.
C2_WeatherNovelty ==
    /\ [][(DataStep /\ last'.op = "add_data") =>
            \A k \in 1..Len(last'.fetched) : WeatherRowsOf(db, last'.fetched[k]) = {}]_vars
    /\ []((WeatherReturned /\ last.streak >= 2 /\ Len(last.days) <= BATCH_SIZE)
            => (last.fetched = <<>> /\ last.added = 0 /\ last.retDays = <<>>))

\* C3: no two rows of cfb_games share the same (date_id, opponent_id).
C3_GameFactUnique ==
    \A i, j \in 1..Len(db.cfb_games) :
        i # j => <<db.cfb_games[i].date_id, db.cfb_games[i].opponent_id>>
                    # <<db.cfb_games[j].date_id, db.cfb_games[j].opponent_id>>

\* C4: Weather holds at most one row per date, and exactly one row for every
\* date an add_data call returned as inserted.
C4_WeatherFactUnique ==
    /\ \A i, j \in 1..Len(db.Weather) :
          (i # j /\ db.Weather[i].date_id # None)
              => db.Weather[i].date_id # db.Weather[j].date_id
    /\ WeatherReturned =>
          \A k \in 1..Len(last.retDays) :
              Cardinality(WeatherRowsOf(db, last.retDays[k])) = 1

\* C5: one invocation of store_cfb_data or of add_data adds at most 25 fact
\* rows to its fact table, however long the candidate list.
C5_BatchSizeBound ==
    last.op \in {"store_cfb_data", "add_data"} => last.added <= BATCH_SIZE

\* a games run whose backlog exceeded the batch and that added a full batch
C5_Witness ==
    GamesReturned /\ Len(last.remGames) > batch_size /\ last.added = batch_size

\* C6: when add_data or store_cfb_data raises at an item of its batch, no
\* fact row of that batch is visible afterward: the fact tables are as they
\* were before the call.
C6_PartialBatchAtomic ==
    (last.op \in {"store_cfb_data", "add_data"} /\ last.raised) => last.added = 0

UniqueDimensions(d) ==
    /\ \A i, j \in 1..Len(d.dates) :
          i # j => (d.dates[i].day # d.dates[j].day /\ d.dates[i].id # d.dates[j].id)
    /\ \A i, j \in 1..Len(d.opponents) :
          i # j => (d.opponents[i].name # d.opponents[j].name
                    /\ d.opponents[i].id # d.opponents[j].id)

\* a natural key that resolves to an id in d resolves to the same id in e
SameIds(d, e) ==
    /\ \/ e.dates = d.dates
       \/ \A i \in 1..Len(d.dates) : LookupDate(e, d.dates[i].day) = d.dates[i].id
    /\ \/ e.opponents = d.opponents
       \/ \A i \in 1..Len(d.opponents) :
              LookupOpponent(e, d.opponents[i].name) = d.opponents[i].id

\* C7: over any interleaving of weather and games runs, dates and opponents
\* never hold two rows with the same natural key, and a natural key keeps
\* the surrogate id it resolved to: in the committed store always, and in
\* the connection's view for as long as the connection lives.
C7_DimensionUnique ==
    /\ [](UniqueDimensions(db) /\ UniqueDimensions(disk))
    /\ [][SameIds(disk, disk') /\ (~CloseStep => SameIds(db, db'))]_vars

\* a weather fact and a game fact refer to the same dates row: both runs
\* resolved that day
C7_Witness ==
    /\ GamesReturned /\ last.added > 0
    /\ \E i \in 1..Len(db.Weather), j \in 1..Len(db.cfb_games) :
          db.Weather[i].date_id # None /\ db.Weather[i].date_id = db.cfb_games[j].date_id

\* C8: the remaining candidates computed by store_cfb_data and by add_data
\* are exactly the candidates whose natural key is not among the natural
\* keys of the stored facts, in the candidates' order.
C8_NoveltyCorrect ==
    [][/\ (DataStep /\ last'.op = "store_cfb_data") =>
            last'.remGames = SelectSeq(last'.games,
                LAMBDA g : GameKey(g) \notin StoredGameKeys(db))
       /\ (DataStep /\ last'.op = "add_data" /\ {"dates", "Weather"} \subseteq db.tables) =>
            last'.remDays = SelectSeq(last'.days,
                LAMBDA x : WeatherRowsOf(db, x) = {})]_vars

\* C9: after ceil(N/25) returning runs of store_cfb_data with the same list
\* of N > 25 distinct games, every candidate has a row in cfb_games.
C9_GamesBacklogDrained ==
    (/\ GamesReturned
     /\ Len(last.games) > batch_size
     /\ Distinct(last.games)
     /\ last.streak >= RunsNeeded(Len(last.games)))
        => \A k \in 1..Len(last.games) : GameKey(last.games[k]) \in StoredGameKeys(db)

\* C10: after ceil(N/25) returning runs of add_data with the same list of N
\* candidate dates (every fetch succeeding), every candidate date has a
\* weather row.
C10_WeatherBacklogDrained ==
    (WeatherReturned /\ last.streak >= RunsNeeded(Len(last.days)))
        => \A k \in 1..Len(last.days) : WeatherRowsOf(db, last.days[k]) # {}

\* the day a weather fact was fetched for: get_weather_data answers day x
\* with temperature_2m_mean 40 + x
FetchedDayOf(w) == w.temp_mean - 40

\* C11: every Weather row's date_id and every cfb_games row's date_id and
\* opponent_id is non-null and is the id of an existing dates / opponents
\* row; the dates row of a weather fact is the day the fact was fetched for.
C11_NoDanglingRefs ==
    /\ \A i \in 1..Len(db.Weather) :
          /\ db.Weather[i].date_id # None
          /\ DayOfId(db, db.Weather[i].date_id) = FetchedDayOf(db.Weather[i])
    /\ \A j \in 1..Len(db.cfb_games) :
          /\ db.cfb_games[j].date_id # None
          /\ DayOfId(db, db.cfb_games[j].date_id) # None
          /\ db.cfb_games[j].opponent_id # None
          /\ NameOfId(db, db.cfb_games[j].opponent_id) # None

\* the k-th of the n rows a call appended to a fact table
NewRow(table, n, k) == table[Len(table) - n + k]

\* the natural key of a stored game row
RowKey(d, row) ==
    <<DayOfId(d, row.date_id), NameOfId(d, row.opponent_id),
      row.points_for, row.points_against, row.home>>

\* C12: the list store_cfb_data or add_data returns holds exactly the
\* candidates for which that invocation added a fact row, one row per
\* returned item in order, so its length is the growth of the fact table.
C12_ReturnedProgressExact ==
    /\ GamesReturned =>
          /\ Len(last.retGames) = last.added
          /\ \A k \in 1..Len(last.retGames) :
                RowKey(db, NewRow(db.cfb_games, last.added, k)) = GameKey(last.retGames[k])
    /\ WeatherReturned =>
          /\ Len(last.retDays) = last.added
          /\ \A k \in 1..Len(last.retDays) :
                FetchedDayOf(NewRow(db.Weather, last.added, k)) = last.retDays[k]

\* an add_data run that skipped stored candidates and returned the others
C12_Witness ==
    /\ WeatherReturned
    /\ last.retDays # <<>>
    /\ Len(last.retDays) < Len(last.days)
    /\ Len(last.days) <= BATCH_SIZE
    /\ last.added = Len(last.retDays)

\* no rows in any dimension or fact table
NoRows(d) ==
    d.dates = <<>> /\ d.opponents = <<>> /\ d.cfb_games = <<>> /\ d.Weather = <<>>

At(log, e) == {i \in 1..Len(log) : log[i] = e}

\* C17: within one store_cfb_data or add_data call no fact row is written
\* before every batch item has been fetched, normalized and resolved; the
\* facts are written by one insert after the loop, and a returning call
\* commits once, after that insert.
C17_InsertAfterLoop ==
    last.op \in {"store_cfb_data", "add_data"} =>
        /\ \A i \in At(last.log, "insert") :
              \A j \in At(last.log, "fetch") \cup At(last.log, "normalize")
                          \cup At(last.log, "resolve") : j < i
        /\ Cardinality(At(last.log, "insert")) <= 1
        /\ ~last.raised => At(last.log, "commit") = {Len(last.log)}
        /\ last.raised => At(last.log, "commit") = {}

\* the row tables of the store
RowTables == {"dates", "opponents", "cfb_games", "Weather"}

\* how many rows of table t the step adds to store view d (d' after it)
Growth(t, before, after) == Len(after[t]) - Len(before[t])

\* C18: when add_data or store_cfb_data fails, the rows it wrote before the
\* failure are discarded, and no later commit on the connection makes them
\* durable: a step adds to the committed store only rows it wrote itself.
C18_FailedBatchAbandoned ==
    /\ []((last.op \in {"store_cfb_data", "add_data"} /\ last.raised)
            => \A t \in RowTables : Len(db[t]) = Len(disk[t]))
    /\ [][\A t \in RowTables :
             disk'[t] # disk[t] => Growth(t, disk, disk') <= Growth(t, db, db')]_vars

\* C19: one add_data call calls get_weather_data once for each item of its
\* batch, in order, and for nothing else, so it makes at most BATCH_SIZE
\* remote calls however long the candidate list is.
C19_RemoteCallBound ==
    last.op = "add_data" =>
        LET batch == Slice(last.remDays, BATCH_SIZE)
            calls == Cardinality(At(last.log, "fetch"))
        IN  /\ calls <= BATCH_SIZE
            /\ calls <= Len(batch)
            /\ last.fetched = Slice(batch, Len(last.fetched))
            /\ calls = Len(last.fetched) + (IF last.raised /\ last.log # <<>> THEN 1 ELSE 0)
            /\ ~last.raised => (last.fetched = batch /\ last.retDays = batch)

\* an add_data run over a backlog longer than one batch
C19_Witness ==
    /\ WeatherReturned
    /\ Len(last.days) > BATCH_SIZE
    /\ Len(last.remDays) > BATCH_SIZE
    /\ Cardinality(At(last.log, "fetch")) = BATCH_SIZE

\* rows is still the beginning of rows2
IsPrefix(rows, rows2) ==
    \/ rows2 = rows
    \/ /\ Len(rows) <= Len(rows2)
       /\ \A i \in 1..Len(rows) : rows2[i] = rows[i]

\* C20: make_table, create_dates_table, the table creation of
\* store_cfb_data, insert_dates, add_data and store_cfb_data only add rows:
\* every row present before the operation is present after it with the
\* same id and values.
C20_AppendOnly ==
    [][/\ \A t \in RowTables : IsPrefix(disk[t], disk'[t])
       /\ ~CloseStep => \A t \in RowTables : IsPrefix(db[t], db'[t])]_vars

\* an insert_dates run that met a stored day and left its row in place
C20_Witness ==
    /\ last.op = "insert_dates"
    /\ ~last.raised
    /\ Len(db.dates) >= 2
    /\ db.datesSeq > Len(db.dates)
    /\ db.Weather # <<>>

\* a returned call of process_cfb_data / process_weather_data
GamesNormalized == pure.fn = "process_cfb_data" /\ pure.done
WeatherNormalized == pure.fn = "process_weather_data" /\ pure.done

\* every field of the raw game is there and is not null
Complete(g) == \A key \in RawKeys : key \in DOMAIN g /\ ~g[key].null

\* day is raw without its time of day: the part of raw before its first "T"
IsDayOf(day, raw) ==
    /\ ~Contains(day, "T")
    /\ Len(day) <= Len(raw)
    /\ \A i \in 1..Len(day) : raw[i] = day[i]
    /\ Len(day) < Len(raw) => raw[Len(day) + 1] = "T"

\* C14: process_cfb_data returns one record per raw record, in input order;
\* its date is startDate without the time of day; when homeTeam = TEAM the
\* opponent is awayTeam, points_for homePoints, points_against awayPoints and
\* home 1, otherwise the opponent is homeTeam, points_for awayPoints,
\* points_against homePoints and home 0.
C14_GameMapping ==
    (GamesNormalized /\ \A i \in 1..Len(pure.arg.raw_data) : Complete(pure.arg.raw_data[i]))
        => /\ ~pure.raised
           /\ Len(pure.out) = Len(pure.arg.raw_data)
           /\ \A i \in 1..Len(pure.arg.raw_data) :
                 LET g == pure.arg.raw_data[i]
                     r == pure.out[i]
                 IN  /\ IsDayOf(r.date, g.startDate.v)
                     /\ IF g.homeTeam.v = pure.arg.TEAM
                        THEN /\ r.opponent.v = g.awayTeam.v
                             /\ r.points_for.v = g.homePoints.v
                             /\ r.points_against.v = g.awayPoints.v
                             /\ r.home = 1
                        ELSE /\ r.opponent.v = g.homeTeam.v
                             /\ r.points_for.v = g.awayPoints.v
                             /\ r.points_against.v = g.homePoints.v
                             /\ r.home = 0

\* a home game with a time of day followed by an away game
C14_Witness ==
    /\ GamesNormalized
    /\ Len(pure.arg.raw_data) = 2
    /\ Complete(pure.arg.raw_data[1]) /\ Complete(pure.arg.raw_data[2])
    /\ pure.arg.raw_data[1].homeTeam.v = pure.arg.TEAM
    /\ Contains(pure.arg.raw_data[1].startDate.v, "T")
    /\ pure.arg.raw_data[2].awayTeam.v = pure.arg.TEAM
    /\ Len(pure.out) = 2
    /\ pure.out[1].home = 1 /\ pure.out[2].home = 0

\* the value a normalizer must give for a raw field: the field, or the
\* default when the field is missing or null
OrDefault(g, key, default) ==
    IF key \in DOMAIN g /\ ~g[key].null THEN g[key] ELSE Val(default)

\* C15: for a raw record with any fields missing or null, process_cfb_data
\* and process_weather_data do not raise: they return the record with the
\* defaults in place of those fields (date "unknown", team "unknown", score
\* 0, weather measurement 0).
C15_NormalizeNeverFails ==
    /\ GamesNormalized =>
          /\ ~pure.raised
          /\ \A i \in 1..Len(pure.out) :
                LET g == pure.arg.raw_data[i]
                    r == pure.out[i]
                    home == OrDefault(g, "homeTeam", "unknown").v = pure.arg.TEAM
                IN  /\ r.date = date_clean(OrDefault(g, "startDate", unknown).v)
                    /\ r.opponent = OrDefault(g, IF home THEN "awayTeam" ELSE "homeTeam", "unknown")
                    /\ r.points_for = OrDefault(g, IF home THEN "homePoints" ELSE "awayPoints", 0)
                    /\ r.points_against = OrDefault(g, IF home THEN "awayPoints" ELSE "homePoints", 0)
    /\ WeatherNormalized =>
          /\ ~pure.raised
          /\ \A key \in {"temp_mean", "wind_speed", "cloud_cover", "precipitation"} :
                ~pure.out[key].null

\* the calendar day after a day
NextDay(c) ==
    IF c[3] < DaysInMonth(c[1], c[2]) THEN <<c[1], c[2], c[3] + 1>>
    ELSE IF c[2] < 12 THEN <<c[1], c[2] + 1, 1>>
    ELSE <<c[1] + 1, 1, 1>>

RECURSIVE DaysLater(_, _)
DaysLater(c, n) == IF n = 0 THEN c ELSE DaysLater(NextDay(c), n - 1)

\* day c is day e or an earlier day
NotAfter(c, e) ==
    \/ c[1] < e[1]
    \/ c[1] = e[1] /\ c[2] < e[2]
    \/ c[1] = e[1] /\ c[2] = e[2] /\ c[3] <= e[3]

\* C16: generate_dates(start, end) returns start, start + 7 days, start + 14
\* days, ... up to the last of them that is not after end: each element is 7
\* days after the one before it, none is after end, the first is start when
\* start is not after end, and the list is empty when start is after end.
C16_GenerateDates ==
    (pure.fn = "generate_dates" /\ pure.done) =>
        LET start == pure.arg.start
            end   == pure.arg.end
            out   == pure.out
        IN  /\ ~pure.raised
            /\ NotAfter(start, end) => (out # <<>> /\ out[1] = start)
            /\ ~NotAfter(start, end) => out = <<>>
            /\ \A i \in 1..(Len(out) - 1) : out[i + 1] = DaysLater(out[i], 7)
            /\ \A i \in 1..Len(out) : NotAfter(out[i], end)
            /\ out # <<>> => ~NotAfter(DaysLater(out[Len(out)], 7), end)

\* a range of more than two weeks that runs over the end of a month
C16_Witness ==
    /\ pure.fn = "generate_dates"
    /\ pure.done
    /\ Len(pure.out) >= 3
    /\ pure.out[1] = pure.arg.start
    /\ pure.out[Len(pure.out)][2] # pure.out[1][2]

\* the tables the games sync uses
GamesTables == {"dates", "opponents", "cfb_games"}

\* C21: store_cfb_data creates whichever of dates, opponents and cfb_games
\* the store lacks instead of failing, so it can be the first operation on
\* a fresh store; on a store that has them it leaves their rows as they are.
C21_CreateIfNotExists ==
    /\ [](last.op = "store_cfb_data" =>
            (~last.raised /\ GamesTables \subseteq db.tables))
    /\ [][(DataStep /\ last'.op = "store_cfb_data" /\ GamesTables \subseteq db.tables)
            => \A t \in GamesTables : IsPrefix(db[t], db'[t])]_vars

\* C22: the opponents and dates rows store_cfb_data creates for a batch are
\* committed by the commit that commits the batch's cfb_games rows: the
\* committed store never holds an opponents row without a game of its
\* batch, and a commit never adds games without the rows they refer to.
C22_DimensionsCommitWithFacts ==
    /\ \A i \in 1..Len(disk.opponents) :
          \E j \in 1..Len(disk.cfb_games) :
              disk.cfb_games[j].opponent_id = disk.opponents[i].id
    /\ \A j \in 1..Len(disk.cfb_games) :
          /\ NameOfId(disk, disk.cfb_games[j].opponent_id) # None
          /\ DayOfId(disk, disk.cfb_games[j].date_id) # None

\* the games of the list that satisfy keep
Matching(games, keep(_)) == {i \in 1..Len(games) : keep(games[i])}

\* C23: the analysis functions never divide by zero: for every list of
\* joined games, the empty list included, precipitation_analysis returns 0
\* when the points_for add up to 0, and wind_home_advantage, pts_by_temp and
\* pts_by_cloud return 0 for every category without a game; every game
\* with home 0 or 1 is in exactly one category of wind_home_advantage.
C23_NoDivisionByZero ==
    pure.done =>
        LET games == pure.arg
            out   == pure.out
        IN  /\ pure.fn \in AnalysisFns => ~pure.raised
            /\ pure.fn = "precipitation_analysis" =>
                  ((\A i \in 1..Len(games) : games[i].points_for = 0) => out = Zero)
            /\ pure.fn = "wind_home_advantage" =>
                  /\ \A key \in WindKeys :
                        Matching(games, LAMBDA g : InWindCategory(key, g)) = {} => out[key] = Zero
                  /\ \A i \in 1..Len(games) :
                        Cardinality({key \in WindKeys : InWindCategory(key, games[i])}) = 1
            /\ pure.fn = "pts_by_temp" =>
                  /\ Matching(games, LAMBDA g : g.home = 1 /\ g.temp_mean < 45) = {}
                        => out.Below45 = Zero
                  /\ Matching(games, LAMBDA g : g.home = 1 /\ g.temp_mean > 45) = {}
                        => out.Above45 = Zero
            /\ pure.fn = "pts_by_cloud" =>
                  /\ Matching(games, LAMBDA g : g.home = 1 /\ g.cloud_cover < 50) = {}
                        => (out.Below50 = Zero /\ out.Below50Against = Zero)
                  /\ Matching(games, LAMBDA g : g.home = 1 /\ g.cloud_cover > 50) = {}
                        => (out.Above50 = Zero /\ out.Above50Against = Zero)

\* wind_home_advantage on two games of one category: the other three are empty
C23_Witness ==
    /\ pure.fn = "wind_home_advantage"
    /\ pure.done
    /\ Len(pure.arg) = 2
    /\ pure.out["low_wind_home"] # Zero
    /\ \A key \in WindKeys \ {"low_wind_home"} : pure.out[key] = Zero

====
